---- MODULE Spec2Model ----
(***************************************************************************)
(* GoFig: one Change unit (src/change.go).  A Change is constructed with   *)
(* whatever of before / patch / instruction / command is known, solved by  *)
(* SolveChange (inferAfter, inferCommand, inferPrettyDiff, inferRollback,  *)
(* inferPatch) and pushed to the database client by pushChange.            *)
(*                                                                         *)
(* Go values held in a map[string]any are records [t, v]: t is the dynamic *)
(* type and v the payload.  A Go map variable is a record [nil, m]: nil is *)
(* TRUE for the nil map, m is the function from the keys present to their  *)
(* values.  Texts ([]byte, string) are TLA+ strings.                      *)
(***************************************************************************)
EXTENDS Integers, Sequences, FiniteSets, TLC

\* ---------------------------------------------------------------- bounds
\* Number of SolveChange calls and of pushChange calls made on one Change.
MaxSolve == 2
MaxPush == 1

\* ------------------------------------------------------------- constants
MigratorUnknown == 0
MigratorUpdate == 1
MigratorSet == 2
MigratorAdd == 3
MigratorDelete == 4
\* A command number outside the enum (a migration file may hold any number).
MigratorOther == MigratorDelete + 1

Commands == {MigratorUnknown, MigratorUpdate, MigratorSet, MigratorAdd,
             MigratorDelete, MigratorOther}

NilErr == "<nil>"
ErrNotSolved == "Change has not yet been solved."
ErrNeedForAfter == "Need before and patch/instruction to infer after."
ErrNeedForCommand == "Need after value to infer command."
ErrNeedForRollback == "Need before and after value to infer rollback."
ErrNeedForPrettyDiff == "Need before and after value to infer pretty diff."
ErrDiffApply == "DiffApplyFailure"
ErrDatabase == "database error"

\* ---------------------------------------------------------------- values
Str(s) == [t |-> "string", v |-> s]
Ref(p) == [t |-> "docref", v |-> p]
Time(i) == [t |-> "time", v |-> i]
DeleteField == [t |-> "delete", v |-> ""]
Null == [t |-> "nil", v |-> ""]

\* Field names, in the order json.Marshal writes them (sorted).
KeyOrder == <<"a", "b">>
Keys == {KeyOrder[i] : i \in 1..Len(KeyOrder)}

Paths == {"fig/fog"}
Instants == {"2023-05-13T13:44:40.522Z"}

\* The rich values a field of before / patch may hold.
RichVals == {Str("1"), Str("2"), Ref("fig/fog")}

EmptyFcn == [k \in {} |-> Null]
NilMap == [nil |-> TRUE, m |-> EmptyFcn]
MkMap(f) == [nil |-> FALSE, m |-> f]
EmptyMap == MkMap(EmptyFcn)
MapLen(x) == Cardinality(DOMAIN x.m)

FcnsOver(V) == UNION {[S -> V] : S \in SUBSET Keys}
\* map[string]any values a caller may pass: nil, or any mapping over Keys.
RichMaps == {NilMap} \cup {MkMap(f) : f \in FcnsOver(RichVals)}

\* ---------------------------------------------------------- serialization
RefTag == "<ref>"
TimeTag == "<time>"
DeleteTag == "<delete>"
DeletePayload == "!delete"

SerializeValue(x) ==
    CASE x.t = "docref" -> Str(RefTag \o x.v \o RefTag)
      [] x.t = "time" -> Str(TimeTag \o x.v \o TimeTag)
      [] x.t = "delete" -> Str(DeleteTag \o DeletePayload \o DeleteTag)
      [] OTHER -> x

DeSerializeValue(x) ==
    IF x.t # "string" THEN x
    ELSE IF \E p \in Paths : x.v = RefTag \o p \o RefTag
         THEN Ref(CHOOSE p \in Paths : x.v = RefTag \o p \o RefTag)
    ELSE IF \E i \in Instants : x.v = TimeTag \o i \o TimeTag
         THEN Time(CHOOSE i \in Instants : x.v = TimeTag \o i \o TimeTag)
    ELSE IF x.v = DeleteTag \o DeletePayload \o DeleteTag
         THEN DeleteField
    ELSE x

\* SerializeData(data, db).(map[string]any): field by field; ranging over a
\* nil map yields the empty mapping.
SerializeData(data) == MkMap([k \in DOMAIN data.m |-> SerializeValue(data.m[k])])
DeSerializeData(data) == MkMap([k \in DOMAIN data.m |-> DeSerializeValue(data.m[k])])

\* ------------------------------------------------------------------ JSON
Quote == "\""
JsonToken(x) == IF x.t = "nil" THEN "null" ELSE Quote \o x.v \o Quote

RECURSIVE JsonMembers(_, _, _)
JsonMembers(f, i, first) ==
    IF i > Len(KeyOrder) THEN ""
    ELSE LET k == KeyOrder[i]
         IN IF k \in DOMAIN f
            THEN (IF first THEN "" ELSE ",") \o Quote \o k \o Quote \o ":"
                 \o JsonToken(f[k]) \o JsonMembers(f, i + 1, FALSE)
            ELSE JsonMembers(f, i + 1, first)

\* json.Marshal of a map[string]any holding strings and nils.
Marshal(x) == IF x.nil THEN "null" ELSE "{" \o JsonMembers(x.m, 1, TRUE) \o "}"

\* The JSON object values of the bounded universe, and their texts.
JsonVals == {SerializeValue(x) : x \in RichVals} \cup {Null}
JsonObjects == {MkMap(f) : f \in FcnsOver(JsonVals)}
\* Each object paired with its text.
JsonPairs == {<<Marshal(d), d>> : d \in JsonObjects}
JsonTexts == {p[1] : p \in JsonPairs}

IsJsonObject(text) == text \in JsonTexts
\* json.Unmarshal of an object text: the object whose text it is.
Unmarshal(text) == (CHOOSE p \in JsonPairs : p[1] = text)[2]

\* ------------------------------------------------- structural diff / patch
\* Whole-document patch: a member of the patch replaces the member of the
\* document, a null member removes it, the other members are kept.
MergeDoc(d, p) ==
    LET removed == {k \in DOMAIN p.m : p.m[k].t = "nil"}
        keys == (DOMAIN d.m \cup DOMAIN p.m) \ removed
    IN MkMap([k \in keys |-> IF k \in DOMAIN p.m THEN p.m[k] ELSE d.m[k]])

ApplyDiffPatch(doc, patchText) ==
    IF ~IsJsonObject(doc) \/ ~IsJsonObject(patchText)
    THEN [out |-> "", err |-> ErrDiffApply]
    ELSE [out |-> Marshal(MergeDoc(Unmarshal(doc), Unmarshal(patchText))),
          err |-> NilErr]

\* The patch that turns document a into document b.
DiffDoc(a, b) ==
    LET gone == DOMAIN a.m \ DOMAIN b.m
        put == {k \in DOMAIN b.m : k \notin DOMAIN a.m \/ a.m[k] # b.m[k]}
    IN MkMap([k \in gone \cup put |-> IF k \in gone THEN Null ELSE b.m[k]])

GetDiffPatch(a, b) ==
    IF ~IsJsonObject(a) \/ ~IsJsonObject(b)
    THEN [out |-> "", err |-> ErrDiffApply]
    ELSE [out |-> Marshal(DiffDoc(Unmarshal(a), Unmarshal(b))), err |-> NilErr]

RECURSIVE PrettyLines(_, _, _)
PrettyLines(b, a, i) ==
    IF i > Len(KeyOrder) THEN ""
    ELSE LET k == KeyOrder[i]
             inB == k \in DOMAIN b.m
             inA == k \in DOMAIN a.m
             line == IF inB /\ ~inA THEN "-" \o k \o ":" \o JsonToken(b.m[k]) \o ";"
                     ELSE IF ~inB /\ inA THEN "+" \o k \o ":" \o JsonToken(a.m[k]) \o ";"
                     ELSE IF inB /\ inA /\ b.m[k] # a.m[k]
                          THEN "~" \o k \o ":" \o JsonToken(b.m[k]) \o "=>"
                               \o JsonToken(a.m[k]) \o ";"
                     ELSE ""
         IN line \o PrettyLines(b, a, i + 1)

\* Display rendering of the added / removed / changed keys, before -> after.
PrettyDiff(sBefore, sAfter) == [out |-> PrettyLines(sBefore, sAfter, 1), err |-> NilErr]

\* ---------------------------------------------------------------- Change
VARIABLES docPath, before, patch, after, instruction, command, prettyDiff,
          rollback, errState, cache,
          database,   \* the calls received by the database client and its
                      \* answers, in order
          call,       \* the most recent call on the Change and its result
          nSolve, nPush

vars == <<docPath, before, patch, after, instruction, command, prettyDiff,
          rollback, errState, cache, database, call, nSolve, nPush>>

\* The Change as one record.
Chg == [docPath |-> docPath, before |-> before, patch |-> patch, after |-> after,
        instruction |-> instruction, command |-> command,
        prettyDiff |-> prettyDiff, rollback |-> rollback, errState |-> errState,
        cache |-> cache]

\* Instruction texts a caller may pass.
Instructions == {"", "{\"a\":\"2\"}", "{\"a\":null}", "not a patch"}

CacheKeys == {"sBefore", "sPatch", "serialBefore", "serialAfter"}

fetchCache(c, key, data) ==
    IF key \in DOMAIN c.cache
    THEN [c |-> c, val |-> c.cache[key]]
    ELSE LET sVar == SerializeData(data)
         IN [c |-> [c EXCEPT !.cache = (key :> sVar) @@ c.cache], val |-> sVar]

beforeAfterCache(c) ==
    LET fb == fetchCache(c, "serialBefore", c.before)
        fa == fetchCache(fb.c, "serialAfter", c.after)
    IN [c |-> fa.c, sBefore |-> fb.val, sAfter |-> fa.val]

\* inferAfter without the MigratorSet case: Set goes through patch application.
inferAfter_NoSetCase(c) ==
    IF c.command = MigratorAdd
    THEN [c |-> [c EXCEPT !.after = c.patch], err |-> NilErr, applied |-> 0,
          payload |-> ""]
    ELSE IF c.command = MigratorDelete
    THEN [c |-> [c EXCEPT !.after = EmptyMap], err |-> NilErr, applied |-> 0,
          payload |-> ""]
    ELSE IF c.before.nil \/ (c.patch.nil /\ c.instruction = "")
    THEN [c |-> c, err |-> ErrNeedForAfter, applied |-> 0, payload |-> ""]
    ELSE LET fb == fetchCache(c, "sBefore", c.before)
             fp == fetchCache(fb.c, "sPatch", c.patch)
             pm == IF c.instruction # "" /\ MapLen(c.patch) = 0
                   THEN c.instruction
                   ELSE Marshal(fp.val)
             r == ApplyDiffPatch(Marshal(fb.val), pm)
         IN IF r.err # NilErr
            THEN [c |-> fp.c, err |-> r.err, applied |-> 1, payload |-> pm]
            ELSE [c |-> [fp.c EXCEPT !.after = DeSerializeData(Unmarshal(r.out))],
                  err |-> NilErr, applied |-> 1, payload |-> pm]

\* inferAfter with Delete leaving after as it was.
inferAfter_DeleteKeepsAfter(c) ==
    IF c.command = MigratorSet \/ c.command = MigratorAdd
    THEN [c |-> [c EXCEPT !.after = c.patch], err |-> NilErr, applied |-> 0,
          payload |-> ""]
    ELSE IF c.command = MigratorDelete
    THEN [c |-> c, err |-> NilErr, applied |-> 0, payload |-> ""]
    ELSE IF c.before.nil \/ (c.patch.nil /\ c.instruction = "")
    THEN [c |-> c, err |-> ErrNeedForAfter, applied |-> 0, payload |-> ""]
    ELSE LET fb == fetchCache(c, "sBefore", c.before)
             fp == fetchCache(fb.c, "sPatch", c.patch)
             pm == IF c.instruction # "" /\ MapLen(c.patch) = 0
                   THEN c.instruction
                   ELSE Marshal(fp.val)
             r == ApplyDiffPatch(Marshal(fb.val), pm)
         IN IF r.err # NilErr
            THEN [c |-> fp.c, err |-> r.err, applied |-> 1, payload |-> pm]
            ELSE [c |-> [fp.c EXCEPT !.after = DeSerializeData(Unmarshal(r.out))],
                  err |-> NilErr, applied |-> 1, payload |-> pm]

\* Each step returns the Change it leaves and its error; inferAfter also the
\* number of ApplyDiffPatch calls it made and the patch payload it applied.
inferAfter(c) ==
    IF c.command = MigratorSet \/ c.command = MigratorAdd
    THEN [c |-> [c EXCEPT !.after = c.patch], err |-> NilErr, applied |-> 0,
          payload |-> ""]
    ELSE IF c.command = MigratorDelete
    THEN [c |-> [c EXCEPT !.after = EmptyMap], err |-> NilErr, applied |-> 0,
          payload |-> ""]
    ELSE IF c.before.nil \/ (c.patch.nil /\ c.instruction = "")
    THEN [c |-> c, err |-> ErrNeedForAfter, applied |-> 0, payload |-> ""]
    ELSE LET fb == fetchCache(c, "sBefore", c.before)
             fp == fetchCache(fb.c, "sPatch", c.patch)
             bm == Marshal(fb.val)
             pm == IF c.instruction # "" /\ MapLen(c.patch) = 0
                   THEN c.instruction
                   ELSE Marshal(fp.val)
             r == ApplyDiffPatch(bm, pm)
         IN IF r.err # NilErr
            THEN [c |-> fp.c, err |-> r.err, applied |-> 1, payload |-> pm]
            ELSE [c |-> [fp.c EXCEPT !.after = DeSerializeData(Unmarshal(r.out))],
                  err |-> NilErr, applied |-> 1, payload |-> pm]

\* inferCommand testing len(after) >= 0 instead of > 0.
inferCommand_AlwaysSet(c) ==
    IF c.command # MigratorUnknown THEN [c |-> c, err |-> NilErr]
    ELSE IF c.after.nil THEN [c |-> c, err |-> ErrNeedForCommand]
    ELSE [c |-> [c EXCEPT !.command = MigratorSet], err |-> NilErr]

\* inferCommand without the guard that keeps a supplied command.
inferCommand_NoGuard(c) ==
    IF c.after.nil THEN [c |-> c, err |-> ErrNeedForCommand]
    ELSE IF MapLen(c.after) > 0
    THEN [c |-> [c EXCEPT !.command = MigratorSet], err |-> NilErr]
    ELSE [c |-> [c EXCEPT !.command = MigratorDelete], err |-> NilErr]

inferCommand(c) ==
    IF c.command # MigratorUnknown THEN [c |-> c, err |-> NilErr]
    ELSE IF c.after.nil THEN [c |-> c, err |-> ErrNeedForCommand]
    ELSE IF MapLen(c.after) > 0
    THEN [c |-> [c EXCEPT !.command = MigratorSet], err |-> NilErr]
    ELSE [c |-> [c EXCEPT !.command = MigratorDelete], err |-> NilErr]

\* inferRollback diffing in the forward direction, before -> after.
inferRollback_Forward(c) ==
    IF c.before.nil \/ c.after.nil THEN [c |-> c, err |-> ErrNeedForRollback]
    ELSE LET ba == beforeAfterCache(c)
             r == GetDiffPatch(Marshal(ba.sBefore), Marshal(ba.sAfter))
         IN IF r.err # NilErr THEN [c |-> ba.c, err |-> r.err]
            ELSE [c |-> [ba.c EXCEPT !.rollback = r.out], err |-> NilErr]

inferRollback(c) ==
    IF c.before.nil \/ c.after.nil THEN [c |-> c, err |-> ErrNeedForRollback]
    ELSE LET ba == beforeAfterCache(c)
             a == Marshal(ba.sAfter)
             b == Marshal(ba.sBefore)
             r == GetDiffPatch(a, b)
         IN IF r.err # NilErr THEN [c |-> ba.c, err |-> r.err]
            ELSE [c |-> [ba.c EXCEPT !.rollback = r.out], err |-> NilErr]

\* inferPatch filling in for Add and Set only.
inferPatch_NoUpdate(c) ==
    IF MapLen(c.patch) = 0
       /\ (c.command = MigratorAdd \/ c.command = MigratorSet)
    THEN [c EXCEPT !.patch = c.after]
    ELSE c

inferPatch(c) ==
    IF MapLen(c.patch) = 0
       /\ (c.command = MigratorAdd \/ c.command = MigratorSet
           \/ c.command = MigratorUpdate)
    THEN [c EXCEPT !.patch = c.after]
    ELSE c

\* inferPrettyDiff requiring only after.
inferPrettyDiff_NoBeforeCheck(c) ==
    IF c.after.nil THEN [c |-> c, err |-> ErrNeedForPrettyDiff]
    ELSE LET ba == beforeAfterCache(c)
             s == PrettyDiff(ba.sBefore, ba.sAfter)
         IN IF s.err # NilErr THEN [c |-> ba.c, err |-> s.err]
            ELSE [c |-> [ba.c EXCEPT !.prettyDiff = s.out], err |-> NilErr]

inferPrettyDiff(c) ==
    IF c.before.nil \/ c.after.nil THEN [c |-> c, err |-> ErrNeedForPrettyDiff]
    ELSE LET ba == beforeAfterCache(c)
             s == PrettyDiff(ba.sBefore, ba.sAfter)
         IN IF s.err # NilErr THEN [c |-> ba.c, err |-> s.err]
            ELSE [c |-> [ba.c EXCEPT !.prettyDiff = s.out], err |-> NilErr]

\* A failed step whose error is returned without being stored.
Failed_ErrStateNotSet(c, err, steps, first) ==
    [c |-> c, ret |-> err, steps |-> steps, applied |-> first.applied,
     payload |-> first.payload]

\* A step failed: errState is set and the error returned.  first is the
\* result of inferAfter, whose ApplyDiffPatch count and payload are reported.
Failed(c, err, steps, first) ==
    [c |-> [c EXCEPT !.errState = err], ret |-> err, steps |-> steps,
     applied |-> first.applied, payload |-> first.payload]

\* SolveChange that does not clear errState on entry.
ClearErrState_Missing(c) == c

\* c.errState = nil, the first statement of SolveChange.
ClearErrState(c) == [c EXCEPT !.errState = NilErr]

\* SolveChange on Change c: the Change it leaves, the error it returns, the
\* steps it ran, the number of ApplyDiffPatch calls made and the payload
\* applied.
Solve(c) ==
    LET r1 == inferAfter(ClearErrState(c))
    IN IF r1.err # NilErr
       THEN Failed(r1.c, r1.err, <<"inferAfter">>, r1)
       ELSE
    LET r2 == inferCommand(r1.c)
    IN IF r2.err # NilErr
       THEN Failed(r2.c, r2.err, <<"inferAfter", "inferCommand">>, r1)
       ELSE
    LET r3 == inferPrettyDiff(r2.c)
    IN IF r3.err # NilErr
       THEN Failed(r3.c, r3.err,
                   <<"inferAfter", "inferCommand", "inferPrettyDiff">>, r1)
       ELSE
    LET r4 == inferRollback(r3.c)
    IN IF r4.err # NilErr
       THEN Failed(r4.c, r4.err,
                   <<"inferAfter", "inferCommand", "inferPrettyDiff",
                     "inferRollback">>, r1)
       ELSE [c |-> inferPatch(r4.c), ret |-> NilErr,
             steps |-> <<"inferAfter", "inferCommand", "inferPrettyDiff",
                         "inferRollback", "inferPatch">>,
             applied |-> r1.applied, payload |-> r1.payload]

\* commandString, upper-cased by strings.ToUpper.
commandString(c) ==
    CASE c.command = MigratorUpdate -> "update"
      [] c.command = MigratorSet -> "set"
      [] c.command = MigratorAdd -> "add"
      [] c.command = MigratorDelete -> "delete"
      [] OTHER -> "unknown"

ToUpper(s) ==
    CASE s = "update" -> "UPDATE"
      [] s = "set" -> "SET"
      [] s = "add" -> "ADD"
      [] s = "delete" -> "DELETE"
      [] s = "unknown" -> "UNKNOWN"
      [] OTHER -> s

\* clrTheme().blue: the text between the colour escape sequences.
Blue(s) == "ESC[34m" \o s \o "ESC[0m"

\* The sentinel tokens Present removes when they touch a quote.
PresentSentinels == {"__timestamp__", "__delete__", "__docref__"}
SentinelPayloads == Paths \cup Instants \cup {DeletePayload}

\* A value as Present shows it: "<r>payload<r>" loses quotes and sentinels.
StrippedToken(x) ==
    IF x.t = "nil" THEN "null"
    ELSE IF \E r \in PresentSentinels, q \in SentinelPayloads : x.v = r \o q \o r
    THEN CHOOSE q \in SentinelPayloads :
             \E r \in PresentSentinels : x.v = r \o q \o r
    ELSE JsonToken(x)

RECURSIVE StrippedLines(_, _, _)
StrippedLines(b, a, i) ==
    IF i > Len(KeyOrder) THEN ""
    ELSE LET k == KeyOrder[i]
             inB == k \in DOMAIN b.m
             inA == k \in DOMAIN a.m
             line == IF inB /\ ~inA
                     THEN "-" \o k \o ":" \o StrippedToken(b.m[k]) \o ";"
                     ELSE IF ~inB /\ inA
                     THEN "+" \o k \o ":" \o StrippedToken(a.m[k]) \o ";"
                     ELSE IF inB /\ inA /\ b.m[k] # a.m[k]
                          THEN "~" \o k \o ":" \o StrippedToken(b.m[k]) \o "=>"
                               \o StrippedToken(a.m[k]) \o ";"
                     ELSE ""
         IN line \o StrippedLines(b, a, i + 1)

\* Every diff text of the bounded universe paired with the text left by the
\* strings.Replace calls of Present.
SerialDocs == {SerializeData(d) : d \in RichMaps}
StripPairs == {<<PrettyLines(b, a, 1), StrippedLines(b, a, 1)>> :
                  b \in SerialDocs, a \in SerialDocs}
StripSentinels(s) == (CHOOSE q \in StripPairs : q[1] = s)[2]

ErrorBlock(err) == "< !!! ERROR STATE !!! >\n" \o err \o "\n"
NoChanges == "< no changes >\n"

\* Present testing prettyDiff before errState.
Present_DiffFirst(c) ==
    [header |-> <<"Target: " \o Blue(c.docPath),
                  " >> [" \o ToUpper(commandString(c)) \o "]" \o "\n\n">>,
     body |-> IF c.prettyDiff = "" THEN NoChanges
              ELSE IF c.errState # NilErr THEN ErrorBlock(c.errState)
              ELSE StripSentinels(c.prettyDiff) \o "\n"]

\* Present: the header and the body it returns.
Present(c) ==
    [header |-> <<"Target: " \o Blue(c.docPath),
                  " >> [" \o ToUpper(commandString(c)) \o "]" \o "\n\n">>,
     body |-> IF c.errState # NilErr THEN ErrorBlock(c.errState)
              ELSE IF c.prettyDiff = "" THEN NoChanges
              ELSE StripSentinels(c.prettyDiff) \o "\n"]

\* Payload transformers the orchestrator may pass to pushChange.
Transformers == {"identity", "encode"}
Transform(tr, data) ==
    IF tr = "identity" THEN data
    ELSE MkMap([k \in DOMAIN data.m |-> DeSerializeValue(SerializeValue(data.m[k]))]
               @@ [k \in {"b"} |-> Str("2")])

\* pushChange sending an Add as an update.
pushChange_AddUpdates(c, tr, dbErr) ==
    LET data == Transform(tr, c.patch)
    IN IF c.command = MigratorUpdate \/ c.command = MigratorAdd
       THEN [req |-> [op |-> "UpdateDoc", path |-> c.docPath, data |-> data],
             ret |-> dbErr]
       ELSE IF c.command = MigratorSet
       THEN [req |-> [op |-> "SetDoc", path |-> c.docPath, data |-> data],
             ret |-> dbErr]
       ELSE [req |-> [op |-> "DeleteDoc", path |-> c.docPath, data |-> NilMap],
             ret |-> dbErr]

\* pushChange(transformer) on Change c, the client answering dbErr: the call
\* the client receives and the error pushChange returns.
pushChange(c, tr, dbErr) ==
    LET data == Transform(tr, c.patch)
    IN IF c.command = MigratorUpdate
       THEN [req |-> [op |-> "UpdateDoc", path |-> c.docPath, data |-> data],
             ret |-> dbErr]
       ELSE IF c.command = MigratorSet \/ c.command = MigratorAdd
       THEN [req |-> [op |-> "SetDoc", path |-> c.docPath, data |-> data],
             ret |-> dbErr]
       ELSE [req |-> [op |-> "DeleteDoc", path |-> c.docPath, data |-> NilMap],
             ret |-> dbErr]

\* The record kept of a call: the operation, its argument, what it returned
\* (an error; for Present the body, with the header in steps), for
\* SolveChange the steps run, the ApplyDiffPatch calls made and the payload
\* applied, and the command, patch, errState and number of database calls
\* when it started.
CallRecord(op, arg, ret, steps, applied, payload) ==
    [op |-> op, arg |-> arg, ret |-> ret, steps |-> steps, applied |-> applied,
     payload |-> payload,
     cmdIn |-> command, patchIn |-> patch, errIn |-> errState,
     dbIn |-> Len(database)]

\* NewChange(docPath, before, patch, command, instruction, database).
Init ==
    /\ docPath \in Paths
    /\ before \in RichMaps
    /\ patch \in RichMaps
    /\ command \in Commands
    /\ instruction \in Instructions
    /\ after = NilMap
    /\ prettyDiff = ""
    /\ rollback = ""
    /\ errState = ErrNotSolved
    /\ cache = [k \in {} |-> NilMap]
    /\ database = <<>>
    /\ call = [op |-> "NewChange", arg |-> "", ret |-> NilErr, steps |-> <<>>,
               applied |-> 0, payload |-> "", cmdIn |-> command, patchIn |-> patch,
               errIn |-> ErrNotSolved, dbIn |-> 0]
    /\ nSolve = 0
    /\ nPush = 0

SolveChange ==
    /\ nSolve < MaxSolve
    /\ \E r \in {Solve(Chg)} :
          /\ after' = r.c.after
          /\ command' = r.c.command
          /\ prettyDiff' = r.c.prettyDiff
          /\ rollback' = r.c.rollback
          /\ patch' = r.c.patch
          /\ errState' = r.c.errState
          /\ cache' = r.c.cache
          /\ docPath' = r.c.docPath
          /\ before' = r.c.before
          /\ instruction' = r.c.instruction
          /\ call' = CallRecord("SolveChange", "", r.ret, r.steps, r.applied,
                                  r.payload)
    /\ nSolve' = nSolve + 1
    /\ UNCHANGED <<database, nPush>>

\* pushChange(transformer); the client answers with nil or with an error.
PushChange ==
    /\ nPush < MaxPush
    /\ \E tr \in Transformers, dbErr \in {NilErr, ErrDatabase} :
       \E r \in {pushChange(Chg, tr, dbErr)} :
          /\ database' = Append(database, [req |-> r.req, answer |-> dbErr])
          /\ call' = CallRecord("pushChange", tr, r.ret, <<>>, 0, "")
    /\ nPush' = nPush + 1
    /\ UNCHANGED <<docPath, before, patch, after, instruction, command,
                   prettyDiff, rollback, errState, cache, nSolve>>

\* Present(): the call record holds the body (ret) and the header (steps).
PresentChange ==
    /\ \E r \in {Present(Chg)} :
          call' = CallRecord("Present", "", r.body, r.header, 0, "")
    /\ UNCHANGED <<docPath, before, patch, after, instruction, command,
                   prettyDiff, rollback, errState, cache, database, nSolve,
                   nPush>>

Next == SolveChange \/ PushChange \/ PresentChange

Spec == Init /\ [][Next]_vars

\* ---------------------------------------------------------------- claims
Solved == call.op = "SolveChange"
SolvedOk == Solved /\ call.ret = NilErr
Pushed == call.op = "pushChange"
StepOrder == <<"inferAfter", "inferCommand", "inferPrettyDiff", "inferRollback",
               "inferPatch">>

C2_PatchIsAfterOnSet ==
    (nSolve >= 1 /\ errState = NilErr
     /\ command \in {MigratorSet, MigratorAdd}) =>
        /\ patch = after
        /\ pushChange(Chg, "identity", NilErr).req
             = [op |-> "SetDoc", path |-> docPath, data |-> after]

\* C3: a successful SolveChange that started with command Unknown leaves
\* command Set exactly when after is non-empty, Delete otherwise, and never
\* Unknown.
C3_CommandInferred ==
    (SolvedOk /\ call.cmdIn = MigratorUnknown) =>
        /\ command # MigratorUnknown
        /\ (command = MigratorSet <=> MapLen(after) > 0)
        /\ (MapLen(after) = 0 => command = MigratorDelete)

C3_Witness ==
    /\ SolvedOk /\ call.cmdIn = MigratorUnknown
    /\ MapLen(before) > 0 /\ MapLen(after) = 0 /\ command = MigratorDelete

\* C4: a SolveChange that runs with command Set or Add sets after to the
\* input patch, makes no ApplyDiffPatch call and leaves patch as it was.
C4_SetAddShortcut ==
    (Solved /\ call.cmdIn \in {MigratorSet, MigratorAdd}) =>
        /\ after = call.patchIn
        /\ call.applied = 0
        /\ patch = call.patchIn

C4_Witness ==
    /\ SolvedOk /\ call.cmdIn = MigratorSet
    /\ MapLen(before) = 2 /\ MapLen(call.patchIn) = 1 /\ after = call.patchIn

\* C5: a successful SolveChange with command Add, Set or Update and an empty
\* input patch (nil or the empty mapping) leaves patch equal to after.
C5_PatchFilledIn ==
    (SolvedOk /\ call.cmdIn \in {MigratorAdd, MigratorSet, MigratorUpdate}
     /\ MapLen(call.patchIn) = 0) =>
        patch = after

C5_Witness ==
    /\ SolvedOk /\ call.cmdIn = MigratorUpdate
    /\ call.patchIn = NilMap /\ MapLen(patch) > 0 /\ patch = after

\* C6: SolveChange with command Delete and before present succeeds with
\* after the empty mapping, command still Delete and patch as supplied; a
\* Delete inferred from Unknown leaves patch as supplied too.
C6_DeleteNeverFillsIn ==
    /\ (Solved /\ call.cmdIn = MigratorDelete /\ ~before.nil) =>
          /\ call.ret = NilErr /\ errState = NilErr
          /\ after = EmptyMap
          /\ command = MigratorDelete
          /\ patch = call.patchIn
    /\ (SolvedOk /\ call.cmdIn = MigratorUnknown /\ command = MigratorDelete) =>
          patch = call.patchIn

C6_Witness ==
    /\ SolvedOk /\ call.cmdIn = MigratorDelete
    /\ MapLen(before) > 0 /\ call.patchIn = NilMap /\ patch = NilMap
    /\ instruction # ""

\* C7: SolveChange with command Unknown fails in inferAfter unless before is
\* present and patch or instruction is non-empty.
C7_UnknownNeedsInputs ==
    (Solved /\ call.cmdIn = MigratorUnknown
     /\ ~(~before.nil /\ (MapLen(call.patchIn) > 0 \/ instruction # ""))) =>
        /\ call.ret # NilErr
        /\ errState = call.ret
        /\ call.steps = <<"inferAfter">>

\* The errors each step can return.
StepErrors == <<{ErrNeedForAfter, ErrDiffApply}, {ErrNeedForCommand},
                {ErrNeedForPrettyDiff}, {ErrNeedForRollback}, {}>>

\* C8: SolveChange runs inferAfter, inferCommand, inferPrettyDiff,
\* inferRollback, inferPatch in that order; when step k is the first to
\* fail, errState holds that step's error, the same error is returned, no
\* later step runs and the fields the later steps write keep their values.
C8_FailClosed ==
    [][nSolve' = nSolve + 1 =>
         LET k == Len(call'.steps)
         IN /\ k \in 1..5
            /\ call'.steps = SubSeq(StepOrder, 1, k)
            /\ errState' = call'.ret
            /\ (call'.ret = NilErr <=> k = 5)
            /\ call'.ret # NilErr =>
                 /\ call'.ret \in StepErrors[k]
                 /\ (k <= 1 => command' = command)
                 /\ (k <= 2 => prettyDiff' = prettyDiff)
                 /\ (k <= 3 => rollback' = rollback)
                 /\ (k <= 4 => patch' = patch)]_vars

C8_Witness ==
    /\ Solved /\ call.ret = ErrNeedForPrettyDiff /\ errState = ErrNeedForPrettyDiff
    /\ call.steps = <<"inferAfter", "inferCommand", "inferPrettyDiff">>
    /\ MapLen(after) > 0 /\ prettyDiff = "" /\ rollback = ""

\* C9: a pushChange made while errState is set issues no call to the
\* database client.
C9_NoPushWhenErrored ==
    (Pushed /\ call.errIn # NilErr) => Len(database) = call.dbIn

\* C10: pushChange on a solved Change issues exactly one database call,
\* UpdateDoc for Update, SetDoc for Set and Add, DeleteDoc otherwise, with
\* the transformed patch; it returns the client's answer and changes no
\* field of the Change.
C10_PushDispatch ==
    [][(nPush' = nPush + 1 /\ errState = NilErr) =>
         LET data == Transform(call'.arg, patch)
             last == database'[Len(database')]
         IN /\ Len(database') = Len(database) + 1
            /\ SubSeq(database', 1, Len(database)) = database
            /\ last.req =
                 IF command = MigratorUpdate
                 THEN [op |-> "UpdateDoc", path |-> docPath, data |-> data]
                 ELSE IF command \in {MigratorSet, MigratorAdd}
                 THEN [op |-> "SetDoc", path |-> docPath, data |-> data]
                 ELSE [op |-> "DeleteDoc", path |-> docPath, data |-> NilMap]
            /\ call'.ret = last.answer
            /\ UNCHANGED <<docPath, before, patch, after, instruction, command,
                           prettyDiff, rollback, errState, cache>>]_vars

C10_Witness ==
    /\ Pushed /\ call.errIn = NilErr /\ call.ret = ErrDatabase
    /\ call.arg = "encode" /\ command = MigratorAdd
    /\ database[Len(database)].req.op = "SetDoc"

\* C11: a SolveChange called right after a successful SolveChange succeeds
\* too and leaves after, command, patch, prettyDiff and rollback as the first
\* call left them.
C11_SolveAgainSame ==
    [][(nSolve' = nSolve + 1 /\ call.op = "SolveChange" /\ call.ret = NilErr) =>
         /\ call'.ret = NilErr
         /\ after' = after
         /\ command' = command
         /\ patch' = patch
         /\ prettyDiff' = prettyDiff
         /\ rollback' = rollback]_vars

\* C12: errState is set from construction until a SolveChange succeeds; after
\* every SolveChange errState is the error that call returned, nil exactly
\* when it returned nil, whatever errState held before; no other call
\* changes errState.
C12_ErrStateIsLastResult ==
    [][/\ (nSolve = 0 => errState # NilErr)
       /\ (nSolve' = nSolve + 1 =>
             /\ errState' = call'.ret
             /\ (errState' = NilErr <=> Len(call'.steps) = Len(StepOrder)))
       /\ (nSolve' = nSolve => errState' = errState)]_vars

C12_Witness ==
    /\ nSolve = 1 /\ Solved /\ call.errIn = ErrNotSolved
    /\ call.ret = NilErr /\ errState = NilErr /\ call.applied = 1

\* C13: whatever the command, a SolveChange on a Change whose before is
\* absent fails, sets errState and writes neither prettyDiff nor rollback.
C13_NeedsBefore ==
    (Solved /\ before.nil) =>
        /\ call.ret # NilErr
        /\ errState = call.ret
        /\ prettyDiff = ""
        /\ rollback = ""

C13_Witness ==
    /\ Solved /\ before.nil /\ call.cmdIn = MigratorAdd
    /\ MapLen(after) > 0 /\ call.ret = ErrNeedForPrettyDiff

\* C17: SolveChange never changes docPath, before or instruction, keeps a
\* command that was not Unknown, and changes command only from Unknown to
\* Set or Delete.
C17_InputsKept ==
    [][nSolve' = nSolve + 1 =>
         /\ docPath' = docPath
         /\ before' = before
         /\ instruction' = instruction
         /\ (command # MigratorUnknown => command' = command)
         /\ (command' # command =>
               command = MigratorUnknown
               /\ command' \in {MigratorSet, MigratorDelete})]_vars

C17_Witness ==
    /\ nSolve = 2 /\ SolvedOk /\ call.errIn = NilErr
    /\ call.cmdIn = MigratorUpdate /\ command = MigratorUpdate
    /\ MapLen(after) = 0 /\ MapLen(before) > 0

\* The errors errState can hold.
AllErrors == {ErrNotSolved, ErrNeedForAfter, ErrNeedForCommand,
              ErrNeedForRollback, ErrNeedForPrettyDiff, ErrDiffApply}

\* C14: Present changes no field of the Change, the cache included; its body
\* is the error block with errState's text exactly when errState is set, and
\* otherwise comes from prettyDiff alone, "no changes" when it is empty.
C14_PresentPure ==
    [][call'.op = "Present" =>
         /\ UNCHANGED <<docPath, before, patch, after, instruction, command,
                        prettyDiff, rollback, errState, cache>>
         /\ (errState # NilErr => call'.ret = ErrorBlock(errState))
         /\ (errState = NilErr =>
               /\ call'.ret \notin {ErrorBlock(e) : e \in AllErrors}
               /\ call'.ret = IF prettyDiff = "" THEN NoChanges
                              ELSE StripSentinels(prettyDiff) \o "\n")]_vars

C14_Witness ==
    /\ call.op = "Present" /\ nSolve = 1
    /\ errState = ErrNeedForPrettyDiff
    /\ call.ret = ErrorBlock(ErrNeedForPrettyDiff)
    /\ MapLen(after) > 0

\* C15: when SolveChange derives after by patch application, the payload it
\* applies to the serialized before is the instruction text exactly when
\* patch is empty and instruction is not; otherwise it is the serialized
\* patch.
C15_PayloadChoice ==
    (Solved /\ call.applied = 1) =>
        call.payload = IF MapLen(call.patchIn) = 0 /\ instruction # ""
                       THEN instruction
                       ELSE Marshal(SerializeData(call.patchIn))

\* C16: what a SolveChange reads from the cache is the serialization of the
\* field's current value (patch as it was when read), so prettyDiff and
\* rollback are those of the current before and after.
C16_CacheCoherent ==
    /\ (Solved /\ call.applied = 1) =>
          /\ cache["sBefore"] = SerializeData(before)
          /\ cache["sPatch"] = SerializeData(call.patchIn)
    /\ SolvedOk =>
          /\ cache["serialBefore"] = SerializeData(before)
          /\ cache["serialAfter"] = SerializeData(after)
          /\ prettyDiff = PrettyDiff(SerializeData(before),
                                     SerializeData(after)).out
          /\ rollback = GetDiffPatch(Marshal(SerializeData(after)),
                                     Marshal(SerializeData(before))).out

====
